---------------------------- MODULE Spec2Model ----------------------------
(***************************************************************************)
(* Model of do_cost_alert.py: the daily aggregation of billing items, the  *)
(* daily report file, and the monthly ledger (monthly_summary.md) that     *)
(* update_monthly_summary parses, merges into and rewrites.                *)
(*                                                                         *)
(* Money.  The program holds costs as binary floats.  The model holds them *)
(* as integers counting fifths of a cent ($0.002): every such amount is    *)
(* some fifth of a cent away from a half-cent, so the "%.2f" rounding of   *)
(* the float and of the exact decimal agree, and sums of a few of them     *)
(* carry no visible float error.  Cents(c) and Dollars(d) build amounts.   *)
(*                                                                         *)
(* Text.  A file is modelled by what its text holds, cell by cell.  A cell *)
(* of a table line is                                                      *)
(*   k = "int": an integer literal ("5"); int() and float() accept it;     *)
(*   k = "dec": any other numeric literal ("5.25", "1.2e+06"); only        *)
(*              float() accepts it; v is the amount it denotes;            *)
(*   k = "txt": text that neither accepts; s tells texts apart.            *)
(* tabulate pads cells to the column width; the padding is a function of   *)
(* the cells, so two tables have the same bytes iff they have the same     *)
(* cells.                                                                  *)
(***************************************************************************)
EXTENDS Integers, Sequences, FiniteSets, TLC

Cents(c) == 5 * c

Dollars(d) == 500 * d

(***************************************************************************)
(* Bounds of the model.                                                    *)
(***************************************************************************)
\* Instants at which the clock is observed: At(0) .. At(MaxTime).
MaxTime == 3

\* Data rows of a ledger file that exists before the first run.
MaxInitRows == 2

\* Billing items the provider returns to one run.
MaxItems == 2

\* Runs of main() in one behaviour.
MaxRuns == 1

\* Invocations of the job alive at the same time.
MaxProcs == 2

(***************************************************************************)
(* Cells and lines of a pipe table.                                        *)
(***************************************************************************)
IntCell(n) == [k |-> "int", v |-> n, s |-> ""]

DecCell(u) == [k |-> "dec", v |-> u, s |-> ""]

TxtCell(t) == [k |-> "txt", v |-> 0, s |-> t]

\* int(cols[0]) succeeds (line 114).
IsInt(cell) == cell.k = "int"

\* float(cols[1].replace('$', '').replace(',', '')) succeeds (line 115).
IsFloat(cell) == cell.k \in {"int", "dec"}

\* The value float() returns, in fifths of a cent.
FloatOf(cell) == IF cell.k = "int" THEN Dollars(cell.v) ELSE cell.v

(***************************************************************************)
(* Formatting a cost: f"{x:.2f}" (lines 133-134), then tabulate (line 137).*)
(* tabulate is called without disable_numparse, so it reads the "%.2f"     *)
(* strings of a column back as numbers and prints them with its default    *)
(* floatfmt "g": six significant digits, trailing zeros dropped, exponent  *)
(* notation from 1e+06 on.                                                 *)
(***************************************************************************)
\* f"{x:.2f}": the amount x rounded to the nearest cent, in cents.
Round2(x) == (x + 2) \div 5

\* The power of ten below which "%g" drops the digits of an amount of c cents.
RECURSIVE Scale(_)
Scale(c) == IF c < 1000000 THEN 1 ELSE 10 * Scale(c \div 10)

\* format(float(s), "g"): c cents rounded to six significant digits.  An exact
\* half is rounded here to even; Python decides it by the binary value of the
\* float, and no amount of Costs, RowShapes or Amounts, nor any sum of them over
\* the days of a month, falls on one.
GRound(c) ==
    LET p == Scale(c)
        q == c \div p
        r == c % p
        up == IF 2 * r > p \/ (2 * r = p /\ q % 2 = 1) THEN 1 ELSE 0
    IN  (q + up) * p

\* The cell tabulate prints for the string f"{x:.2f}" in a column of floats.
GCell(c) ==
    LET g == GRound(c)
    IN  IF g % 100 = 0 /\ g < 100000000 THEN IntCell(g \div 100) ELSE DecCell(Cents(g))

\* The Cost and Running Total cell written for the amount x.
CostCell(x) == GCell(Round2(x))

(***************************************************************************)
(* Files.  A ledger file is its title (the month named by strftime         *)
(* '%B %Y'), its lines holding a '|' (each the cells of line.split('|')    *)
(* [1:-1]) and the timestamp of its footer.                                *)
(***************************************************************************)
Absent == [exists |-> FALSE, title |-> 0, lines |-> <<>>, stamp |-> <<>>]

HeaderLine == <<TxtCell("Day"), TxtCell("Cost ($)"), TxtCell("Running Total ($)")>>

SeparatorLine == <<TxtCell("-:"), TxtCell("-:"), TxtCell("-:")>>

Stamp(t) == <<t.month, t.day, t.sec>>

(***************************************************************************)
(* update_monthly_summary: parse (lines 102-118).                          *)
(***************************************************************************)
\* monthly_data[day] = cost
Put(md, day, cost) == [k \in DOMAIN md \cup {day} |-> IF k = day THEN cost ELSE md[k]]

\* Mutant of ParseLine: a line that does not parse aborts the parse, and the
\* rows read so far are lost.
ParseLineAbort(md, cols) ==
    IF Len(cols) >= 2 /\ IsInt(cols[1]) /\ IsFloat(cols[2])
    THEN Put(md, cols[1].v, FloatOf(cols[2]))
    ELSE <<>>

\* One pass of "for line in lines[2:]": a line of fewer than two columns, or
\* whose int() or float() raises ValueError, leaves the mapping as it is.
ParseLine(md, cols) ==
    IF Len(cols) >= 2 /\ IsInt(cols[1]) /\ IsFloat(cols[2])
    THEN Put(md, cols[1].v, FloatOf(cols[2]))
    ELSE md

RECURSIVE ParseFrom(_, _, _)
ParseFrom(lines, i, md) ==
    IF i > Len(lines) THEN md ELSE ParseFrom(lines, i + 1, ParseLine(md, lines[i]))

\* Mutant of ParseLedger: the title line is taken for a third line to skip,
\* and the first data row is not read.
ParseLedgerSkip(file) == IF file.exists THEN ParseFrom(file.lines, 4, <<>>) ELSE <<>>

\* The mapping read from the file: empty when there is no file or no '|' in it;
\* the first two lines holding a '|' are skipped as header and separator.
ParseLedger(file) == IF file.exists THEN ParseFrom(file.lines, 3, <<>>) ELSE <<>>

(***************************************************************************)
(* update_monthly_summary: recompute and serialize (lines 123-144).        *)
(***************************************************************************)
\* Mutant of TableRows: a day without a cost gets a row of cost 0.
RECURSIVE TableRowsPadded(_, _, _)
TableRowsPadded(md, day, running) ==
    IF day >= 32 THEN <<>>
    ELSE LET cost == IF day \in DOMAIN md THEN md[day] ELSE 0
         IN  <<<<IntCell(day), CostCell(cost), CostCell(running + cost)>>>>
             \o TableRowsPadded(md, day + 1, running + cost)

\* Mutant of TableRows: the loop runs one day too far, range(1, 33).
RECURSIVE TableRowsTo32(_, _, _)
TableRowsTo32(md, day, running) ==
    IF day >= 33 THEN <<>>
    ELSE IF day \in DOMAIN md
         THEN <<<<IntCell(day), CostCell(md[day]), CostCell(running + md[day])>>>>
              \o TableRowsTo32(md, day + 1, running + md[day])
         ELSE TableRowsTo32(md, day + 1, running)

\* "for day in range(1, 32)": the rows of table_data from day on, as tabulate
\* prints them; running is running_total before day.
RECURSIVE TableRows(_, _, _)
TableRows(md, day, running) ==
    IF day >= 32 THEN <<>>
    ELSE IF day \in DOMAIN md
         THEN <<<<IntCell(day), CostCell(md[day]), CostCell(running + md[day])>>>>
              \o TableRows(md, day + 1, running + md[day])
         ELSE TableRows(md, day + 1, running)

\* The file written for the mapping md at time t.
Serialize(md, t) ==
    [exists |-> TRUE,
     title |-> t.month,
     lines |-> <<HeaderLine, SeparatorLine>> \o TableRows(md, 1, 0),
     stamp |-> Stamp(t)]

\* Mutant of Merge: today's cost is added to the cost already recorded.
MergeAdd(file, t, total_cost) ==
    LET md == ParseLedger(file)
    IN  Put(md, t.day, IF t.day \in DOMAIN md THEN md[t.day] + total_cost ELSE total_cost)

\* Mutant of Merge: a total of 0 is not recorded.
MergeSkipZero(file, t, total_cost) ==
    IF total_cost = 0 THEN ParseLedger(file) ELSE Put(ParseLedger(file), t.day, total_cost)

\* monthly_data at the end of update_monthly_summary(daily_costs, total_cost)
\* run at time t on the file (lines 99-121).
Merge(file, t, total_cost) == Put(ParseLedger(file), t.day, total_cost)

\* The file update_monthly_summary leaves.
update_monthly_summary(file, t, total_cost) == Serialize(Merge(file, t, total_cost), t)

(***************************************************************************)
(* The daily report file (NN.md): a sequence of blocks.  A block written   *)
(* by save_cost_report holds the amounts of the day's items and the total, *)
(* each as f"{amount:.2f}" prints it (in cents); a block written by        *)
(* save_error_report holds the error's type.  Descriptions, durations,     *)
(* messages and the "Generated at" and "Error recorded at" times are text  *)
(* carried through unchanged and are left out.  A block appended to an     *)
(* existing file is preceded by the "---" rule of line 162.                *)
(***************************************************************************)
NoFile == [exists |-> FALSE, blocks |-> <<>>]

RECURSIVE Sum(_)
Sum(amounts) == IF amounts = <<>> THEN 0 ELSE Head(amounts) + Sum(Tail(amounts))

RoundAll(amounts) == [i \in DOMAIN amounts |-> Round2(amounts[i])]

\* save_cost_report's report_content (lines 170-173) around the table or the
\* "No costs recorded for today." of create_markdown_table (lines 77-89).
ReportBlock(daily_costs, total_cost) ==
    [kind |-> "report", rows |-> RoundAll(daily_costs), total |-> Round2(total_cost),
     etype |-> ""]

\* save_error_report's error_content (lines 179-185).
ErrorBlock(etype) ==
    [kind |-> "error", rows |-> <<>>, total |-> 0, etype |-> etype]

\* Mutant of save_daily_file: the file is overwritten whatever is_error says.
save_daily_file_overwrite(file, content, is_error) ==
    [exists |-> TRUE, blocks |-> <<content>>]

\* Mutant of save_daily_file: an existing file is appended to whatever
\* is_error says.
save_daily_file_append(file, content, is_error) ==
    IF file.exists
    THEN [exists |-> TRUE, blocks |-> Append(file.blocks, content)]
    ELSE [exists |-> TRUE, blocks |-> <<content>>]

\* save_daily_file (lines 146-166): what it leaves in the day's file.
save_daily_file(file, content, is_error) ==
    IF is_error /\ file.exists
    THEN [exists |-> TRUE, blocks |-> Append(file.blocks, content)]
    ELSE [exists |-> TRUE, blocks |-> <<content>>]

(***************************************************************************)
(* The billing provider's answer: items with a date and an amount.  A date *)
(* is <<month, day>>, or Malformed when strptime(..., '%Y-%m-%d') raises.  *)
(***************************************************************************)
\* The i-th instant of the sampled calendar: each month is observed at
\* day 1 00:00:00, day 1 00:00:01 and day 2 00:00:00.
At(i) ==
    [month |-> (i \div 3) + 1,
     day |-> IF i % 3 = 2 THEN 2 ELSE 1,
     sec |-> IF i % 3 = 1 THEN 1 ELSE 0]

Times == {At(i) : i \in 0..MaxTime}

Months == {t.month : t \in Times}

Dates == {<<t.month, t.day>> : t \in Times}

Malformed == <<0, 0>>

Amounts == {Cents(300), Cents(450)}

Items == [date : Dates \cup {Malformed}, amount : Amounts]

RECURSIVE SeqsUpTo(_, _)
SeqsUpTo(S, n) ==
    IF n = 0 THEN {<<>>}
    ELSE LET shorter == SeqsUpTo(S, n - 1)
         IN  shorter \cup {Append(q, x) : q \in {r \in shorter : Len(r) = n - 1}, x \in S}

Histories == SeqsUpTo(Items, MaxItems)

\* datetime.strptime raises ValueError on some item (line 65).
HasMalformed(billing_history) ==
    \E i \in DOMAIN billing_history : billing_history[i].date = Malformed

\* Mutant of calculate_daily_cost: the date filter is missing.
RECURSIVE calculate_daily_cost_all(_, _)
calculate_daily_cost_all(billing_history, day) ==
    IF billing_history = <<>> THEN <<>>
    ELSE <<Head(billing_history).amount>>
         \o calculate_daily_cost_all(Tail(billing_history), day)

\* calculate_daily_cost (lines 59-73): the amounts of the items dated today, in order.
RECURSIVE calculate_daily_cost(_, _)
calculate_daily_cost(billing_history, today) ==
    IF billing_history = <<>> THEN <<>>
    ELSE LET item == Head(billing_history)
             rest == calculate_daily_cost(Tail(billing_history), today)
         IN  IF item.date = today THEN <<item.amount>> \o rest ELSE rest

\* create_markdown_table's total_cost (lines 77-78, 86).
TotalCost(daily_costs) == IF daily_costs = <<>> THEN 0 ELSE Sum(daily_costs)

(***************************************************************************)
(* State.                                                                  *)
(***************************************************************************)
VARIABLES
    now,              \* datetime.now(): [month, day, sec]
    ledger,           \* month -> the month's monthly_summary.md
    daily,            \* <<month, day>> -> the day's report file
    dirs,             \* months whose directory exists
    pc,               \* where main() stands
    runs,             \* runs of main() started so far
    billing_history,  \* main's billing_history
    daily_costs,      \* main's daily_costs
    total_cost,       \* main's total_cost
    today,            \* calculate_daily_cost's today (line 61), <<>> outside it
    err,              \* type of the exception main caught, "" if none
    monthly_data,     \* update_monthly_summary's mapping when it last returned
    last,             \* history: the last update_monthly_summary that returned
    ledger0,          \* history: ledger when the run started
    errPre,           \* history: the day and its file when save_error_report was called
    repPre,           \* history: the day and its file when save_cost_report was called
    proc,             \* concurrent invocations: where each stands in update_monthly_summary
    io                \* the ledger files on disk: leftover bytes, last writer

vars == <<now, ledger, daily, dirs, pc, runs, billing_history, daily_costs,
          total_cost, today, err, monthly_data, last, ledger0, errPre, repPre,
          proc, io>>

Later(a, b) ==
    \/ a.month > b.month
    \/ a.month = b.month /\ a.day > b.day
    \/ a.month = b.month /\ a.day = b.day /\ a.sec > b.sec

Today == <<now.month, now.day>>

\* Every cost the file holds is one the serializer writes back unchanged: a
\* whole number of cents of at most six significant digits.
Canonical(file) ==
    LET md == ParseLedger(file)
    IN  \A d \in DOMAIN md : FloatOf(CostCell(md[d])) = md[d]

\* Invocations of the job that may run at once, and one that has not reached
\* update_monthly_summary.
Procs == 1..MaxProcs

NotStarted ==
    [pc |-> "start", t |-> At(0), cost |-> 0, pre |-> Absent, md |-> <<>>,
     before |-> {}]

\* No ledger file holds bytes left by a longer earlier write; nobody has opened
\* one for writing, nobody has written.
QuietDisk == [tail |-> {}, opened |-> {}, closer |-> 0]

NoUpdate ==
    [ran |-> FALSE, month |-> 0, day |-> 0, cost |-> 0, pre |-> Absent,
     rep |-> FALSE, preCanon |-> FALSE, prevCanon |-> FALSE]

InitCommon ==
    /\ runs = 0
    /\ billing_history = <<>>
    /\ daily_costs = <<>>
    /\ total_cost = 0
    /\ today = <<>>
    /\ err = ""
    /\ monthly_data = <<>>
    /\ last = NoUpdate
    /\ errPre = [date |-> <<>>, file |-> NoFile]
    /\ repPre = [date |-> <<>>, file |-> NoFile]
    /\ proc = [p \in Procs |-> NotStarted]
    /\ io = QuietDisk

\* What earlier runs on the first day left behind: nothing; the files of a
\* successful run; those files with the error block of a failed run after it;
\* the error block of a failed run alone.
EarlierCost == Cents(300)

EarlierReport == save_daily_file(NoFile, ReportBlock(<<EarlierCost>>, EarlierCost), FALSE)

EarlierLedger == update_monthly_summary(Absent, At(0), EarlierCost)

Earlier ==
    {[report |-> NoFile, summary |-> Absent],
     [report |-> EarlierReport, summary |-> EarlierLedger],
     [report |-> save_daily_file(EarlierReport, ErrorBlock("APIError"), TRUE),
      summary |-> EarlierLedger],
     [report |-> save_daily_file(NoFile, ErrorBlock("TokenError"), TRUE),
      summary |-> Absent]}

Init ==
    /\ now = At(0)
    /\ \E e \in Earlier :
        /\ daily = [d \in Dates |-> IF d = <<1, 1>> THEN e.report ELSE NoFile]
        /\ ledger = [m \in Months |-> IF m = 1 THEN e.summary ELSE Absent]
        /\ dirs = IF e.report.exists THEN {1} ELSE {}
    /\ ledger0 = ledger
    /\ InitCommon
    /\ pc = "idle"

(***************************************************************************)
(* The clock.                                                              *)
(***************************************************************************)
Tick ==
    /\ \E t \in Times : Later(t, now) /\ now' = t
    /\ UNCHANGED <<proc, io, repPre,
                   ledger, daily, dirs, pc, runs, billing_history, daily_costs,
                   total_cost, today, err, monthly_data, last, ledger0, errPre>>

(***************************************************************************)
(* main() (lines 189-213).                                                 *)
(***************************************************************************)
\* A scheduled run begins.
Start ==
    /\ pc \in {"idle", "done", "failed"}
    /\ runs < MaxRuns
    /\ runs' = runs + 1
    /\ pc' = "get_do_manager"
    /\ billing_history' = <<>>
    /\ daily_costs' = <<>>
    /\ total_cost' = 0
    /\ today' = <<>>
    /\ err' = ""
    /\ ledger0' = ledger
    /\ UNCHANGED <<proc, io, repPre,
                   now, ledger, daily, dirs, monthly_data, last, errPre>>

\* Mutant of Fail: the handler also rewrites the month's summary with no cost.
FailAndSummarize(etype) ==
    /\ daily' = [daily EXCEPT ![Today] = save_daily_file(@, ErrorBlock(etype), TRUE)]
    /\ dirs' = dirs \cup {now.month}
    /\ ledger' = [ledger EXCEPT ![now.month] = update_monthly_summary(@, now, 0)]
    /\ errPre' = [date |-> Today, file |-> daily[Today]]
    /\ err' = etype
    /\ pc' = "failed"
    /\ UNCHANGED <<proc, io, repPre,
                   now, runs, billing_history, daily_costs, total_cost,
                   today, monthly_data, last, ledger0>>

\* Mutant of Fail: the handler exits without calling save_error_report.
FailSilently(etype) ==
    /\ errPre' = [date |-> Today, file |-> daily[Today]]
    /\ err' = etype
    /\ pc' = "failed"
    /\ UNCHANGED <<proc, io, repPre,
                   now, ledger, daily, dirs, runs, billing_history, daily_costs,
                   total_cost, today, monthly_data, last, ledger0>>

\* The except branches of main (lines 199-213): save_error_report(e), exit 1.
Fail(etype) ==
    /\ daily' = [daily EXCEPT ![Today] = save_daily_file(@, ErrorBlock(etype), TRUE)]
    /\ dirs' = dirs \cup {now.month}
    /\ errPre' = [date |-> Today, file |-> daily[Today]]
    /\ err' = etype
    /\ pc' = "failed"
    /\ UNCHANGED <<proc, io, repPre,
                   now, ledger, runs, billing_history, daily_costs, total_cost,
                   today, monthly_data, last, ledger0>>

\* get_do_manager (lines 22-44) returns a manager.
GetManagerOk ==
    /\ pc = "get_do_manager"
    /\ pc' = "get_billing_history"
    /\ UNCHANGED <<proc, io, repPre,
                   now, ledger, daily, dirs, runs, billing_history, daily_costs,
                   total_cost, today, err, monthly_data, last, ledger0, errPre>>

\* get_do_manager raises TokenError (no token, 401) or APIError.
GetManagerFail ==
    /\ pc = "get_do_manager"
    /\ \E e \in {"TokenError", "APIError"} : Fail(e)

\* get_billing_history (lines 46-57) returns the provider's items.
GetBillingOk ==
    /\ pc = "get_billing_history"
    /\ \E h \in Histories : billing_history' = h
    /\ pc' = "calculate_daily_cost"
    /\ UNCHANGED <<proc, io, repPre,
                   now, ledger, daily, dirs, runs, daily_costs, total_cost, today,
                   err, monthly_data, last, ledger0, errPre>>

\* get_billing_history raises TokenError (401) or APIError (429, other).
GetBillingFail ==
    /\ pc = "get_billing_history"
    /\ \E e \in {"TokenError", "APIError"} : Fail(e)

\* calculate_daily_cost and create_markdown_table (lines 194-195) return.
AggregateOk ==
    /\ pc = "calculate_daily_cost"
    /\ ~HasMalformed(billing_history)
    /\ today' = Today
    /\ daily_costs' = calculate_daily_cost(billing_history, today')
    /\ total_cost' = TotalCost(daily_costs')
    /\ pc' = "save_cost_report"
    /\ UNCHANGED <<proc, io, repPre,
                   now, ledger, daily, dirs, runs, billing_history, err,
                   monthly_data, last, ledger0, errPre>>

\* strptime raises ValueError on an item's date (line 65); main catches it as
\* an unexpected error (lines 209-213).
AggregateFail ==
    /\ pc = "calculate_daily_cost"
    /\ HasMalformed(billing_history)
    /\ Fail("ValueError")

\* save_cost_report (lines 168-175): the day's file is replaced by the report.
\* billing_history and today are not read after line 194: they are forgotten here.
SaveCostReport ==
    /\ pc = "save_cost_report"
    /\ daily' = [daily EXCEPT ![Today] =
                    save_daily_file(@, ReportBlock(daily_costs, total_cost), FALSE)]
    /\ dirs' = dirs \cup {now.month}
    /\ pc' = "update_monthly_summary"
    /\ billing_history' = <<>>
    /\ today' = <<>>
    /\ repPre' = [date |-> Today, file |-> daily[Today]]
    /\ UNCHANGED <<proc, io,
                   now, ledger, runs, daily_costs, total_cost, err, monthly_data,
                   last, ledger0, errPre>>

\* Mutant of SummaryStep: the summary path does not depend on the month, and
\* every run reads and writes the first month's file.
SummaryStepOneFile(c) ==
    /\ now.month \in dirs
    /\ ledger' = [ledger EXCEPT ![1] = update_monthly_summary(@, now, c)]
    /\ monthly_data' = Merge(ledger[1], now, c)
    /\ last' = [ran |-> TRUE, month |-> now.month, day |-> now.day, cost |-> c,
                pre |-> ledger[1],
                rep |-> last.ran /\ last.month = now.month /\ last.day = now.day
                        /\ last.cost = c,
                preCanon |-> Canonical(ledger[1]),
                prevCanon |-> last.preCanon]

\* update_monthly_summary (lines 91-144) run to its end with the cost c.
SummaryStep(c) ==
    /\ now.month \in dirs
    /\ ledger' = [ledger EXCEPT ![now.month] = update_monthly_summary(@, now, c)]
    /\ monthly_data' = Merge(ledger[now.month], now, c)
    /\ last' = [ran |-> TRUE, month |-> now.month, day |-> now.day, cost |-> c,
                pre |-> ledger[now.month],
                rep |-> last.ran /\ last.month = now.month /\ last.day = now.day
                        /\ last.cost = c,
                preCanon |-> Canonical(ledger[now.month]),
                prevCanon |-> last.preCanon]

\* main's call of update_monthly_summary (line 197), then exit 0.
UpdateSummaryOk ==
    /\ pc = "update_monthly_summary"
    /\ SummaryStep(total_cost)
    /\ pc' = "done"
    /\ UNCHANGED <<proc, io, repPre,
                   now, daily, dirs, runs, billing_history, daily_costs, total_cost,
                   today, err, ledger0, errPre>>

\* open(summary_file, 'w') raises FileNotFoundError (line 140): the month has
\* changed since save_cost_report made the directory, and the new month has none.
UpdateSummaryFail ==
    /\ pc = "update_monthly_summary"
    /\ now.month \notin dirs
    /\ Fail("FileNotFoundError")

Next ==
    \/ Tick
    \/ Start
    \/ GetManagerOk
    \/ GetManagerFail
    \/ GetBillingOk
    \/ GetBillingFail
    \/ AggregateOk
    \/ AggregateFail
    \/ SaveCostReport
    \/ UpdateSummaryOk
    \/ UpdateSummaryFail

Spec == Init /\ [][Next]_vars

(***************************************************************************)
(* The reconciler on its own: update_monthly_summary applied, run after    *)
(* run, to a ledger file that may have been edited or damaged since it was *)
(* written.  The month directories exist, as save_cost_report leaves them  *)
(* before main calls update_monthly_summary.                               *)
(***************************************************************************)
\* Rows of a ledger file found at the first run: as written, edited by hand,
\* or damaged.
RowShapes ==
    {<<IntCell(1), IntCell(5), IntCell(5)>>,
     <<IntCell(3), DecCell(Cents(250)), DecCell(Cents(750))>>,
     <<IntCell(2), DecCell(2), DecCell(2)>>,
     <<IntCell(3), TxtCell("n/a"), IntCell(5)>>,
     <<TxtCell("x"), IntCell(5), IntCell(5)>>,
     <<IntCell(3)>>,
     <<IntCell(31), IntCell(5)>>,
     <<IntCell(32), IntCell(5), IntCell(5)>>}

InitFiles ==
    {Absent, [exists |-> TRUE, title |-> 1, lines |-> <<>>, stamp |-> Stamp(At(0))]}
    \cup {[exists |-> TRUE, title |-> 1,
           lines |-> <<HeaderLine, SeparatorLine>> \o rows, stamp |-> Stamp(At(0))] :
          rows \in SeqsUpTo(RowShapes, MaxInitRows)}

\* Totals handed to update_monthly_summary: two cents, $10000.04.
Costs == {Cents(2), Cents(1000004)}

LedgerInit ==
    /\ now = At(0)
    /\ daily = [d \in Dates |-> NoFile]
    /\ \E f \in InitFiles : ledger = [m \in Months |-> IF m = 1 THEN f ELSE Absent]
    /\ ledger0 = ledger
    /\ dirs = Months
    /\ InitCommon
    /\ pc = "ledger"

Reconcile ==
    /\ pc = "ledger"
    /\ \E c \in Costs : SummaryStep(c)
    /\ UNCHANGED <<proc, io, repPre,
                   now, daily, dirs, pc, runs, billing_history, daily_costs,
                   total_cost, today, err, ledger0, errPre>>

LedgerNext ==
    \/ Tick
    \/ Reconcile

SpecLedger == LedgerInit /\ [][LedgerNext]_vars

(***************************************************************************)
(* update_monthly_summary step by step, in invocations of the job that are *)
(* alive at the same time.  The function reads the file and builds the     *)
(* table (lines 93-137), opens the file for writing, which empties it      *)
(* (line 140), and writes (lines 141-144); the three writes stay in the    *)
(* buffer of the file object, far smaller than the buffer's size, and      *)
(* reach the file when the with block closes it.  An invocation may be     *)
(* killed between any two of these steps.                                  *)
(***************************************************************************)
\* The file just after open(summary_file, 'w').
Truncated == [exists |-> TRUE, title |-> 0, lines |-> <<>>, stamp |-> <<>>]

\* The total main hands over (line 197): invocations on the same day are
\* billed the same items.
Billed(t) == IF t.day = 1 THEN Cents(300) ELSE Cents(450)

ProcFrame ==
    UNCHANGED <<daily, dirs, pc, runs, billing_history, daily_costs, total_cost,
                today, err, monthly_data, last, ledger0, errPre, repPre>>

ProcInit ==
    /\ now = At(0)
    /\ daily = [d \in Dates |-> NoFile]
    /\ \E f \in {Absent, EarlierLedger} :
        ledger = [m \in Months |-> IF m = 1 THEN f ELSE Absent]
    /\ ledger0 = ledger
    /\ dirs = Months
    /\ InitCommon
    /\ pc = "procs"

\* Lines 93-137: the clock is read once, the file is parsed, today's cost is
\* merged and the table is built.  "before" records which invocations had
\* opened the file for writing by then.
SummaryRead(p) ==
    /\ proc[p].pc = "start"
    /\ now.month \in dirs
    /\ proc' = [proc EXCEPT ![p] =
                    [pc |-> "read", t |-> now, cost |-> Billed(now),
                     pre |-> ledger[now.month],
                     md |-> Merge(ledger[now.month], now, Billed(now)),
                     before |-> io.opened]]
    /\ UNCHANGED <<now, ledger, io>>
    /\ ProcFrame

\* Line 140: open(summary_file, 'w') empties the file.
SummaryOpen(p) ==
    /\ proc[p].pc = "read"
    /\ proc' = [proc EXCEPT ![p].pc = "opened"]
    /\ ledger' = [ledger EXCEPT ![proc[p].t.month] = Truncated]
    /\ io' = [io EXCEPT !.tail = @ \ {proc[p].t.month}, !.opened = @ \cup {p}]
    /\ UNCHANGED now
    /\ ProcFrame

\* Mutant of SummaryClose: the text is written after whatever the file holds
\* by then, as with a file opened for appending.
SummaryCloseAppend(p) ==
    /\ proc[p].pc = "opened"
    /\ proc' = [proc EXCEPT ![p].pc = "closed"]
    /\ ledger' = [ledger EXCEPT ![proc[p].t.month] =
                    [Serialize(proc[p].md, proc[p].t) EXCEPT
                        !.lines = ledger[proc[p].t.month].lines \o @]]
    /\ io' = [io EXCEPT !.closer = p]
    /\ UNCHANGED now
    /\ ProcFrame

\* Lines 141-144 and the end of the with block: the text goes to the file from
\* its first byte.  When another invocation has written since this one opened
\* the file, and wrote more bytes than this one does, the end of that text
\* stays behind this one's; the model does not hold the lengths in bytes, so
\* both outcomes are allowed.
SummaryClose(p) ==
    /\ proc[p].pc = "opened"
    /\ proc' = [proc EXCEPT ![p].pc = "closed"]
    /\ ledger' = [ledger EXCEPT ![proc[p].t.month] = Serialize(proc[p].md, proc[p].t)]
    /\ \E longer \in BOOLEAN :
        /\ longer => ledger[proc[p].t.month] # Truncated
        /\ io' = [tail |-> IF longer THEN io.tail \cup {proc[p].t.month}
                                      ELSE io.tail \ {proc[p].t.month},
                  opened |-> io.opened,
                  closer |-> p]
    /\ UNCHANGED now
    /\ ProcFrame

\* The process is killed inside update_monthly_summary; what its file object
\* had buffered is lost.
Kill(p) ==
    /\ proc[p].pc \in {"read", "opened"}
    /\ proc' = [proc EXCEPT ![p].pc = "killed"]
    /\ UNCHANGED <<now, ledger, io>>
    /\ ProcFrame

ProcNext ==
    \/ Tick
    \/ \E p \in Procs : SummaryRead(p)
    \/ \E p \in Procs : SummaryOpen(p)
    \/ \E p \in Procs : SummaryClose(p)
    \/ \E p \in Procs : Kill(p)

SpecProcs == ProcInit /\ [][ProcNext]_vars

(***************************************************************************)
(* Properties of the reconciler, checked under SpecLedger.                 *)
(***************************************************************************)
\* The file the last update wrote, and the data rows of a file.
Written == ledger[last.month]

Rows(file) == SubSeq(file.lines, 3, Len(file.lines))

\* Title and table of a file: all of it but the "Last Updated" footer.
Table(file) == <<file.exists, file.title, file.lines>>

CalendarDays == {d \in DOMAIN monthly_data : d >= 1 /\ d < 32}

\* C1 as stated: running update_monthly_summary a second time with the same
\* day and cost leaves the file the first run wrote, byte for byte.
C1_IdempotentFile == last.rep => Written = last.pre

\* C1, amended: when the ledger the first run started from was absent or held
\* only costs the serializer writes back unchanged, a second run with the same
\* day and cost leaves the title and the table the first run wrote (the footer
\* carries the time of the second run).
C1_IdempotentTable ==
    (last.rep /\ last.prevCanon) => Table(Written) = Table(last.pre)

\* C1 witness: a second run one second after the first, on a ledger that also
\* holds another day; the table is the same and the footer is not.
C1_Witness ==
    /\ last.rep
    /\ last.prevCanon
    /\ Len(Rows(Written)) >= 2
    /\ Written.stamp # last.pre.stamp
    /\ Table(Written) = Table(last.pre)

\* C2: an update for a day that already has a recorded cost a, with the new
\* cost b, leaves b for that day in the mapping (not a + b), and the row written
\* for the day shows b as the serializer prints it.
C2_Overwrite ==
    (last.ran /\ last.day \in DOMAIN ParseLedger(last.pre)) =>
        /\ monthly_data[last.day] = last.cost
        /\ \E i \in DOMAIN Rows(Written) :
              /\ Rows(Written)[i][1] = IntCell(last.day)
              /\ Rows(Written)[i][2] = CostCell(last.cost)

\* C2 witness: the day had the cost a > 0 and is updated with another cost b.
C2_Witness ==
    /\ last.ran
    /\ last.day \in DOMAIN ParseLedger(last.pre)
    /\ ParseLedger(last.pre)[last.day] > 0
    /\ ParseLedger(last.pre)[last.day] # last.cost
    /\ monthly_data[last.day] = last.cost

\* The running totals a file shows are the prefix sums of the costs it shows.
PrefixSum(file) ==
    LET r == Rows(file)
    IN  \A i \in DOMAIN r :
            FloatOf(r[i][3]) = (IF i = 1 THEN 0 ELSE FloatOf(r[i - 1][3])) + FloatOf(r[i][2])

\* C3: in every ledger written (here: from a ledger that held only costs the
\* serializer writes back unchanged), the first row's running total is its cost
\* and every later row's running total is the previous one plus the row's cost.
C3_PrefixSum == (last.ran /\ last.preCanon) => PrefixSum(Written)

\* A valid mapping: calendar days, costs of whole cents.
ValidMapping(md) ==
    \A d \in DOMAIN md : d >= 1 /\ d < 32 /\ md[d] >= 0 /\ md[d] % 5 = 0

\* C4: parsing the file written for a valid mapping gives the mapping back.
C4_RoundTrip ==
    (last.ran /\ ValidMapping(monthly_data)) => ParseLedger(Written) = monthly_data

Ascending(days) ==
    \A i \in DOMAIN days : \A j \in DOMAIN days : i < j => days[i] < days[j]

RowDays(file) == [i \in DOMAIN Rows(file) |-> Rows(file)[i][1].v]

\* C5: the file written has a row for each calendar day of the merged mapping,
\* no row for any other day, and its rows are in strictly ascending day order.
C5_SparseRows ==
    last.ran =>
        /\ {RowDays(Written)[i] : i \in DOMAIN RowDays(Written)} = CalendarDays
        /\ Ascending(RowDays(Written))
        /\ Len(RowDays(Written)) = Cardinality(CalendarDays)

\* C5 witness: days 1 and 3 are recorded and day 2 is not.
C5_Witness ==
    /\ last.ran
    /\ RowDays(Written) = <<1, 3>>
    /\ CalendarDays = {1, 3}

\* A data row the parser can read: a day and a cost column, an integer day, a
\* numeric cost.
ValidRow(cols) ==
    /\ Len(cols) >= 2
    /\ cols[1].k = "int"
    /\ cols[2].k \in {"int", "dec"}

\* The valid rows of a file as a mapping: the last valid row of a day gives
\* its cost.
ValidRowsMap(file) ==
    LET r == Rows(file)
        at(d) == {i \in DOMAIN r : ValidRow(r[i]) /\ r[i][1].v = d}
        last_at(d) == CHOOSE i \in at(d) : \A j \in at(d) : j <= i
    IN  [d \in {r[i][1].v : i \in {j \in DOMAIN r : ValidRow(r[j])}} |->
            FloatOf(r[last_at(d)][2])]

HasInvalidRow(file) == \E i \in DOMAIN Rows(file) : ~ValidRow(Rows(file)[i])

\* C6: whatever rows the existing file holds, the mapping the update built holds
\* exactly the valid rows of the file and today's entry, and today's row is in
\* the file it wrote.
C6_CorruptRowsDropped ==
    last.ran =>
        /\ monthly_data = Put(ValidRowsMap(last.pre), last.day, last.cost)
        /\ \E i \in DOMAIN Rows(Written) :
              /\ Rows(Written)[i][1] = IntCell(last.day)
              /\ Rows(Written)[i][2] = CostCell(last.cost)

\* C6 witness: the file held a row that does not parse before a valid row of
\* another day; the valid row and today's entry are in the ledger written.
C6_Witness ==
    /\ last.ran
    /\ Len(Rows(last.pre)) = 2
    /\ ~ValidRow(Rows(last.pre)[1])
    /\ ValidRow(Rows(last.pre)[2])
    /\ Rows(last.pre)[2][1].v = 3
    /\ last.day = 1
    /\ RowDays(Written) = <<1, 3>>

(***************************************************************************)
(* Properties of a run of main(), checked under Spec.                      *)
(***************************************************************************)
\* The items of a history dated on a day, and the sum of their amounts.
Matching(h, day) == {i \in DOMAIN h : h[i].date = day}

RECURSIVE SumAt(_, _)
SumAt(h, S) ==
    IF S = {} THEN 0
    ELSE LET i == CHOOSE j \in S : TRUE
         IN  h[i].amount + SumAt(h, S \ {i})

\* C7: when the aggregation has returned, total_cost is the sum of the amounts
\* of exactly the items dated today, daily_costs holds one entry per such item,
\* and with no such item the total is 0 and the list is empty.
C7_DailyTotal ==
    pc = "save_cost_report" =>
        LET m == Matching(billing_history, today)
        IN  /\ total_cost = SumAt(billing_history, m)
            /\ Len(daily_costs) = Cardinality(m)
            /\ \A i \in DOMAIN daily_costs : \E j \in m : billing_history[j].amount = daily_costs[i]
            /\ m = {} => (total_cost = 0 /\ daily_costs = <<>>)

\* C7 witness: of two items, the one dated today is counted and the one of
\* another date is not.
C7_Witness ==
    /\ pc = "save_cost_report"
    /\ Len(billing_history) = 2
    /\ billing_history[1].date = today
    /\ billing_history[2].date \notin {today, Malformed}
    /\ total_cost = billing_history[1].amount
    /\ daily_costs = <<billing_history[1].amount>>

\* C8: a run whose billing history holds an item with a malformed date does not
\* fail: the item is skipped and the run goes on to report the other items.
C8_MalformedSkipped == HasMalformed(billing_history) => pc # "failed"

\* s is the first Len(s) elements of t.
IsPrefix(s, t) == Len(s) <= Len(t) /\ SubSeq(t, 1, Len(s)) = s

\* C9: after a failed run, the file of the day of the failure holds what it
\* held before, followed by the error block of the failure.
C9_AppendOnError ==
    pc = "failed" =>
        LET f == daily[errPre.date]
        IN  /\ f.exists
            /\ IsPrefix(errPre.file.blocks, f.blocks)
            /\ f.blocks = Append(errPre.file.blocks, ErrorBlock(err))

\* C9 witness: the day's file held a report when the run failed.
C9_Witness ==
    /\ pc = "failed"
    /\ errPre.file.exists
    /\ errPre.file.blocks[1].kind = "report"
    /\ Len(daily[errPre.date].blocks) = Len(errPre.file.blocks) + 1

\* C10: after a run that failed before update_monthly_summary was called (a
\* token, API or aggregation error), every ledger file is as it was when the
\* run started.
C10_NoLedgerWriteOnError ==
    (pc = "failed" /\ err \in {"TokenError", "APIError", "ValueError"}) => ledger = ledger0

\* C10 witness: a run fails in the aggregation while a ledger file exists.
C10_Witness ==
    /\ pc = "failed"
    /\ err = "ValueError"
    /\ ledger0[1].exists
    /\ ledger = ledger0

(***************************************************************************)
(* Properties of the ledger write, checked under SpecProcs.                *)
(***************************************************************************)
\* No other invocation has reached update_monthly_summary.
Alone(p) == \A q \in Procs \ {p} : proc[q].pc = "start"

\* C11: at every point of an invocation that runs alone, killed or not, the
\* month's ledger file is either the file the invocation read or the whole
\* file it writes.
C11_AtomicWrite ==
    \A p \in Procs :
        (proc[p].pc # "start" /\ Alone(p)) =>
            ledger[proc[p].t.month] \in {proc[p].pre, Serialize(proc[p].md, proc[p].t)}

(***************************************************************************)
(* Further properties of the reconciler, checked under SpecLedger.         *)
(***************************************************************************)
\* The clock reading the written file carries in its footer.
WrittenAt ==
    [month |-> Written.stamp[1], day |-> Written.stamp[2], sec |-> Written.stamp[3]]

\* C12: parsing the file an update has just written and serializing the
\* mapping again, with nothing merged and at the same clock reading, gives
\* that file back.
C12_FileRoundTrip ==
    last.ran => Serialize(ParseLedger(Written), WrittenAt) = Written

(***************************************************************************)
(* Further properties of main, checked under Spec.                         *)
(***************************************************************************)
\* The status the process ends with: main returns after line 197 (0), or an
\* except branch calls sys.exit(1); -1 while the run has not ended.
ExitStatus ==
    IF pc = "done" THEN 0 ELSE IF pc = "failed" THEN 1 ELSE -1

\* The error types main's except branches tell apart.
ErrorTypes == {"TokenError", "APIError", "ValueError", "FileNotFoundError"}

\* C13: a run ends with status 0 exactly when no step raised, and then it went
\* through the ledger update with its total; a run in which a step raised ends
\* with status 1, and the file of the day of the failure ends with the error
\* block of that error.
C13_ExitStatus ==
    /\ ExitStatus = 0 => (err = "" /\ last.ran /\ last.cost = total_cost)
    /\ err # "" <=> ExitStatus = 1
    /\ ExitStatus = 1 =>
        /\ err \in ErrorTypes
        /\ daily[errPre.date].exists
        /\ daily[errPre.date].blocks[Len(daily[errPre.date].blocks)] = ErrorBlock(err)

\* C13 witness: a run ended with status 1 on an API error and its error block
\* is the last block of the day's file.
C13_Witness ==
    /\ ExitStatus = 1
    /\ err = "APIError"
    /\ daily[errPre.date].blocks[Len(daily[errPre.date].blocks)] = ErrorBlock("APIError")

\* The days from 1 to 31 among the valid rows of a file.
KeptDays(file) == {d \in DOMAIN ValidRowsMap(file) : d >= 1 /\ d < 32}

\* C14 as stated: after an update for day d, every other day that had a valid
\* row in the file read has a row with the same cost in the file written, and
\* the number of recorded days is the same or one more.
C14_NoDayLost ==
    last.ran =>
        LET pre == ValidRowsMap(last.pre)
            post == ValidRowsMap(Written)
        IN  /\ \A d \in DOMAIN pre \ {last.day} : d \in DOMAIN post /\ post[d] = pre[d]
            /\ Cardinality(DOMAIN post) - Cardinality(DOMAIN pre) \in {0, 1}

\* C14, amended: every other day from 1 to 31 that had a valid row in the file
\* read has a row in the file written, with its cost as the serializer prints
\* it (the same cost when it is one the serializer writes back unchanged); the
\* file written holds no day but these and d, so the number of recorded days
\* from 1 to 31 is the same or one more.
C14_CalendarDaysKept ==
    last.ran =>
        LET pre == ValidRowsMap(last.pre)
            post == ValidRowsMap(Written)
        IN  /\ \A d \in KeptDays(last.pre) \ {last.day} :
                  /\ d \in DOMAIN post
                  /\ post[d] = FloatOf(CostCell(pre[d]))
                  /\ FloatOf(CostCell(pre[d])) = pre[d] => post[d] = pre[d]
            /\ DOMAIN post = KeptDays(last.pre) \cup {last.day}
            /\ Cardinality(DOMAIN post) - Cardinality(KeptDays(last.pre)) \in {0, 1}

\* C14 witness: the file read held days 1 and 3; the update for day 2 leaves
\* both with their costs and adds its row between them.
C14_Witness ==
    /\ last.ran
    /\ last.day = 2
    /\ DOMAIN ValidRowsMap(last.pre) = {1, 3}
    /\ RowDays(Written) = <<1, 2, 3>>
    /\ ValidRowsMap(Written)[1] = ValidRowsMap(last.pre)[1]
    /\ ValidRowsMap(Written)[3] = ValidRowsMap(last.pre)[3]

\* The sampled calendar starts in a month of 30 days; the month after it has 31.
LastDayOfMonth(m) == IF m = 1 THEN 30 ELSE 31

DistinctDays(file) ==
    \A i \in DOMAIN Rows(file) : \A j \in DOMAIN Rows(file) :
        i # j => Rows(file)[i][1] # Rows(file)[j][1]

\* C15 as stated: in every ledger written, each row's day is an integer from 1
\* to the last day of the ledger's month, and no day is in two rows.
C15_DaysOfMonth ==
    last.ran =>
        /\ \A i \in DOMAIN Rows(Written) :
              /\ IsInt(Rows(Written)[i][1])
              /\ Rows(Written)[i][1].v >= 1
              /\ Rows(Written)[i][1].v <= LastDayOfMonth(Written.title)
        /\ DistinctDays(Written)

\* C15, amended: in every ledger written, each row's day is an integer from 1
\* to 31, whatever the length of the month, and no day is in two rows.
C15_DaysUpTo31 ==
    last.ran =>
        /\ \A i \in DOMAIN Rows(Written) :
              /\ IsInt(Rows(Written)[i][1])
              /\ Rows(Written)[i][1].v >= 1
              /\ Rows(Written)[i][1].v <= 31
        /\ DistinctDays(Written)

\* C15 witness: the file read held day 1 in two rows; the file written after
\* the update for day 2 holds day 1 once.
C15_Witness ==
    /\ last.ran
    /\ last.day = 2
    /\ Len(Rows(last.pre)) = 2
    /\ ValidRow(Rows(last.pre)[1]) /\ ValidRow(Rows(last.pre)[2])
    /\ Rows(last.pre)[1][1] = IntCell(1)
    /\ Rows(last.pre)[2][1] = IntCell(1)
    /\ RowDays(Written) = <<1, 2>>

(***************************************************************************)
(* Properties of the files a run of main() leaves, checked under Spec.     *)
(***************************************************************************)
DaysOf(file) == {RowDays(file)[i] : i \in DOMAIN RowDays(file)}

\* C16 as stated: after a run that found no billing item for today, the
\* ledger holds no row for the day of the run.
C16_NoRowWithoutBilling ==
    (pc = "done" /\ daily_costs = <<>>) => last.day \notin DaysOf(Written)

\* C16, amended: the ledger a run leaves has rows for the days the file read
\* had and for the day of the run, and for no other day; when the run found no
\* item for today, the row of its day shows the cost 0.
C16_RowsOnlyForRunDays ==
    pc = "done" =>
        /\ DaysOf(Written) = DaysOf(last.pre) \cup {last.day}
        /\ daily_costs = <<>> =>
              \E i \in DOMAIN Rows(Written) :
                  /\ Rows(Written)[i][1] = IntCell(last.day)
                  /\ Rows(Written)[i][2] = CostCell(0)

\* C16 witness: day 1 is recorded; a run on day 2 finds no item for today and
\* leaves a row of cost 0 for day 2, and no row for any other day.
C16_Witness ==
    /\ pc = "done"
    /\ daily_costs = <<>>
    /\ last.day = 2
    /\ RowDays(last.pre) = <<1>>
    /\ RowDays(Written) = <<1, 2>>
    /\ Rows(Written)[2][2] = CostCell(0)

\* C17: a run that updates the ledger in a month reads and writes that month's
\* ledger file only: the file read is the month's file as the run found it, the
\* file written is titled with the month, every other month's file is as it was
\* when the run started, and when the month had no file the ledger written
\* holds the run's day alone.
C17_MonthIsolation ==
    pc = "done" =>
        /\ last.pre = ledger0[last.month]
        /\ Written.title = last.month
        /\ \A m \in Months \ {last.month} : ledger[m] = ledger0[m]
        /\ ~last.pre.exists =>
              /\ monthly_data = [d \in {last.day} |-> total_cost]
              /\ RowDays(Written) = <<last.day>>

\* C17 witness: the first month has a ledger; the first run of the second
\* month leaves it as it was and writes a ledger holding its own day alone.
C17_Witness ==
    /\ pc = "done"
    /\ last.month = 2
    /\ ~last.pre.exists
    /\ ledger0[1].exists
    /\ ledger[1] = ledger0[1]
    /\ ledger[2].title = 2
    /\ RowDays(ledger[2]) = <<last.day>>

\* C18: after a successful run, the file of the day on which the run saved its
\* report holds that report and nothing else, whatever the file held before.
C18_OverwriteOnSuccess ==
    pc = "done" =>
        daily[repPre.date] =
            [exists |-> TRUE, blocks |-> <<ReportBlock(daily_costs, total_cost)>>]

\* C18 witness: the day's file held a report followed by an error block; after
\* the successful run it holds the run's report alone.
C18_Witness ==
    /\ pc = "done"
    /\ Len(repPre.file.blocks) = 2
    /\ repPre.file.blocks[1].kind = "report"
    /\ repPre.file.blocks[2].kind = "error"
    /\ daily[repPre.date].blocks = <<ReportBlock(daily_costs, total_cost)>>

(***************************************************************************)
(* Two invocations at once, checked under SpecProcs.                       *)
(***************************************************************************)
\* p and q both read the month's ledger before either opened it for writing.
BothReadFirst(p, q) ==
    /\ proc[p].t.month = proc[q].t.month
    /\ proc[p].before \cap {p, q} = {}
    /\ proc[q].before \cap {p, q} = {}

\* Nobody is between open and close, or was killed.
NoneWriting == \A r \in Procs : proc[r].pc \in {"start", "read", "closed"}

\* C19: nothing keeps two invocations for the same month apart; when both
\* read the ledger before either writes it and both have written, the ledger
\* holds the title and table of the one that wrote last, built from the file
\* as read and its own day: the day of the other, unless that file had it, has
\* no row.
C19_LastWriterWins ==
    \A p \in Procs : \A q \in Procs \ {p} :
        (/\ proc[p].pc = "closed" /\ proc[q].pc = "closed"
         /\ BothReadFirst(p, q)
         /\ io.closer = q
         /\ NoneWriting) =>
            /\ Table(ledger[proc[q].t.month]) = Table(Serialize(proc[q].md, proc[q].t))
            /\ proc[q].md = Put(ParseLedger(proc[q].pre), proc[q].t.day, proc[q].cost)
            /\ (proc[p].t.day # proc[q].t.day
                /\ proc[p].t.day \notin DOMAIN ParseLedger(proc[q].pre)) =>
                  proc[p].t.day \notin DaysOf(ledger[proc[q].t.month])

\* C19 witness: invocation 2 reads on day 1 and invocation 1 on day 2 of the
\* same month, both before either writes; 1 writes, then 2; the ledger has a
\* row for day 1 and none for day 2.
C19_Witness ==
    /\ proc[1].pc = "closed" /\ proc[2].pc = "closed"
    /\ BothReadFirst(1, 2)
    /\ io.closer = 2
    /\ proc[1].t.day = 2 /\ proc[2].t.day = 1
    /\ proc[1].pre = proc[2].pre
    /\ proc[1].t.day \in DOMAIN proc[1].md
    /\ proc[1].t.day \notin DaysOf(ledger[proc[2].t.month])
    /\ proc[2].t.day \in DaysOf(ledger[proc[2].t.month])

====
